---- MODULE Spec2Model ----
(***************************************************************************)
(* Model of cloency/cal:                                                   *)
(*   - the admin apps router (listLocal, toggle, saveKeys) of              *)
(*     packages/trpc/server/routers/viewer/apps.tsx, over the app,         *)
(*     credential and eventType tables;                                    *)
(*   - the availability editor page (query / form / update mutation).      *)
(* The two flows share no state; Spec is the apps router, PageSpec the     *)
(* availability page.                                                      *)
(***************************************************************************)
EXTENDS Integers, Sequences, FiniteSets, TLC

\* Bounds of the model.
MaxCalls == 3        \* procedure invocations in one behaviour

VARIABLES
    app,        \* prisma.app rows: slug -> [categories, enabled, keys]
    eventType,  \* prisma.eventType rows: id -> metadata
    calls,      \* one record per request slot: the procedure call and its position
    started,    \* number of invocations so far
    mounted,    \* availability page: the component is mounted
    query,      \* availability page: state of viewer.availability.schedule
    form,       \* availability page: what the form holds
    mutations,  \* availability page: update mutations in flight, by stage
    toasts,     \* availability page: toasts shown so far, by kind
    navigations \* availability page: completed router.push("/availability")

apiVars == <<app, eventType, calls, started>>
pageVars == <<mounted, query, form, mutations, toasts, navigations>>
vars == <<app, eventType, calls, started, mounted, query, form, mutations, toasts, navigations>>

(***************************************************************************)
(* Values                                                                  *)
(***************************************************************************)
Str(s) == [type |-> "string", val |-> s]
Num(s) == [type |-> "number", val |-> s]

\* Json? column / unknown input: {} is null, {v} is the value v.
Null == {}
Some(v) == {v}
Truthy(j) == j # Null

\* Key payloads a caller can send to saveKeys.
KeysFull == [client_id |-> Str("id"), client_secret |-> Str("sec"), memo |-> Str("x")]
KeysIdOnly == [client_id |-> Str("id")]
KeysBadType == [client_id |-> Num("7"), client_secret |-> Str("sec")]
KeysSeeded == [client_id |-> Str("gid"), client_secret |-> Str("gsec")]
KeyPayloads == {KeysFull, KeysIdOnly, KeysBadType}

Roles == {"ADMIN", "USER"}
\* Request slots: two requests can be in flight at the same time.
Sessions == {1, 2}

\* Bundled app catalogue, in catalogue order.
getLocalAppMetadata ==
    << [slug |-> "google-calendar", name |-> "Google Calendar", variant |-> "calendar", type |-> "google_calendar"],
       [slug |-> "zoom", name |-> "Zoom", variant |-> "conferencing", type |-> "zoom_video"],
       [slug |-> "stripe", name |-> "Stripe", variant |-> "payment", type |-> "stripe_payment"],
       [slug |-> "giphy", name |-> "Giphy", variant |-> "other", type |-> "giphy_other"] >>

\* Per-app keys schemas: dictionary key -> the schema's key names, all z.string().
appKeysSchemas ==
    [k \in {"stripepayment", "zoomvideo"} |->
        IF k = "stripepayment" THEN <<"client_id", "client_secret">> ELSE <<"client_id">>]

deriveAppDictKeyFromType(type) ==
    CASE type = "stripe_payment" -> "stripepayment"
      [] type = "zoom_video" -> "zoomvideo"
      [] OTHER -> type

\* appKeysSchemas[appKey] (undefined when the dictionary has no such key).
SchemaOf(type) ==
    LET appKey == deriveAppDictKeyFromType(type)
    IN IF appKey \in DOMAIN appKeysSchemas THEN Some(appKeysSchemas[appKey]) ELSE Null

Range(s) == {s[i] : i \in DOMAIN s}

\* A parse that accepts every payload.
ParseOkLax(schema, keys) == TRUE

\* zod object parse: every schema key present and a string; unknown keys are stripped.
ParseOk(schema, keys) ==
    \A k \in Range(schema) : k \in DOMAIN keys /\ keys[k].type = "string"
Parsed(schema, keys) == [k \in Range(schema) |-> keys[k]]

\* Rows of the user and credential tables (not written by the router).
Users == [u1 |-> [email |-> "u1@example.com", locale |-> "de"],
          u2 |-> [email |-> "u2@example.com", locale |-> ""]]
NoUser == "none"
Credentials ==
    [c1 |-> [appId |-> "google-calendar", user |-> "u1"],
     c2 |-> [appId |-> "google-calendar", user |-> "u1"],
     c3 |-> [appId |-> "google-calendar", user |-> NoUser],
     c4 |-> [appId |-> "stripe", user |-> "u2"]]
EventTypeIds == {"et1", "et2"}
EventTypeUsers == [et1 |-> {"u1", "u2"}, et2 |-> {"u2"}]
TaskIds == DOMAIN Credentials \cup EventTypeIds

InitApp ==
    [s \in {"google-calendar", "stripe", "giphy"} |->
        CASE s = "google-calendar" -> [categories |-> {"calendar"}, enabled |-> TRUE, keys |-> Some(KeysSeeded)]
          [] s = "stripe" -> [categories |-> {"payment"}, enabled |-> TRUE, keys |-> Null]
          [] s = "giphy" -> [categories |-> {"other"}, enabled |-> FALSE, keys |-> Null]]

InitEventType ==
    [e \in EventTypeIds |->
        IF e = "et1"
        THEN [apps |-> [stripe |-> [enabled |-> TRUE, price |-> 100],
                        giphy |-> [enabled |-> TRUE, price |-> 0]],
              currency |-> "usd"]
        ELSE [apps |-> [stripe |-> [enabled |-> TRUE, price |-> 50]],
              currency |-> "eur"]]

Slugs == {"google-calendar", "zoom", "stripe", "giphy"}
Variants == {"calendar", "conferencing", "payment", "other"}
Types == {"stripe_payment", "zoom_video", "giphy_other"}
SaveSlugs == {"stripe"}

NoTasks == [t \in TaskIds |-> "none"]
IdleCall ==
    [pc |-> "idle", proc |-> "none", role |-> "USER", slug |-> "", enabled |-> FALSE,
     type |-> "", keys |-> Null, variant |-> "", row |-> FALSE, found |-> {},
     tasks |-> NoTasks, attempted |-> {}, ret |-> FALSE, list |-> <<>>, error |-> ""]

\* Stages of an update mutation: in flight, in onSuccess before and after the
\* refetch, and settled (success, classified HTTP error, any other error).
Stages == {"pending", "onSuccess", "navigating", "success", "errorHttp", "errorOther"}
ErrorKinds == {"HttpError", "Other"}

(***************************************************************************)
(* The apps router                                                         *)
(***************************************************************************)
\* A role check that lets every session through.
IsAdminAnyone(role) == TRUE

\* ctx.session.user.role !== "ADMIN" throws UNAUTHORIZED.
IsAdmin(role) == role = "ADMIN"

\* A request slot can take a new call once its call has ended and none of the
\* promises it left behind is still pending.
Free(c) ==
    /\ calls[c].pc \in {"idle", "returned", "failed"}
    /\ \A t \in TaskIds : calls[c].tasks[t] # "pending"

\* A new request takes a free slot.
Accepts(c) == Free(c)

Fail(call, code) == [call EXCEPT !.pc = "failed", !.error = code]

\* findMany of listLocal: stored rows whose categories have the resolved variant.
CategoryOf(variant) == IF variant = "conferencing" THEN "video" ELSE variant
DbApps(variant) == {s \in DOMAIN app : CategoryOf(variant) \in app[s].categories}

\* keysSchema.keyof()._def.values, or null without a schema.
SchemaKeyNames(type) ==
    LET keysSchema == SchemaOf(type)
    IN IF Truthy(keysSchema) THEN Some(CHOOSE sch \in keysSchema : TRUE) ELSE Null

\* keys is either the stored object, or the array of key names, or null.
StoredKeys(keys) == [stored |-> keys, names |-> Null]
KeyNames(names) == [stored |-> Null, names |-> names]

\* A record that carries the stored keys column in every case.
FilteredAppNoNames(localApp, dbApps) ==
    [slug |-> localApp.slug, name |-> localApp.name, type |-> localApp.type,
     keys |-> StoredKeys(IF localApp.slug \in dbApps THEN app[localApp.slug].keys ELSE Null),
     enabled |-> localApp.slug \in dbApps /\ app[localApp.slug].enabled]

\* The record pushed for one bundled app.
FilteredApp(localApp, dbApps) ==
    LET hasRow == localApp.slug \in dbApps
    IN [slug |-> localApp.slug, name |-> localApp.name, type |-> localApp.type,
        keys |-> IF hasRow /\ Truthy(app[localApp.slug].keys)
                 THEN StoredKeys(app[localApp.slug].keys)
                 ELSE KeyNames(SchemaKeyNames(localApp.type)),
        enabled |-> hasRow /\ app[localApp.slug].enabled]

RECURSIVE FilteredApps(_, _, _)
FilteredApps(i, variant, dbApps) ==
    IF i > Len(getLocalAppMetadata) THEN <<>>
    ELSE LET localApp == getLocalAppMetadata[i]
         IN (IF localApp.variant = variant THEN <<FilteredApp(localApp, dbApps)>> ELSE <<>>)
            \o FilteredApps(i + 1, variant, dbApps)

\* A request arrives: the procedure, the session's role and the parsed input.
CallListLocal(c, role, variant) ==
    /\ Accepts(c)
    /\ started < MaxCalls
    /\ started' = started + 1
    /\ calls' = [calls EXCEPT ![c] =
            [IdleCall EXCEPT !.pc = "called", !.proc = "listLocal", !.role = role,
                             !.variant = variant]]
    /\ UNCHANGED <<app, eventType>>
    /\ UNCHANGED pageVars

CallToggle(c, role, slug, enabled) ==
    /\ Accepts(c)
    /\ started < MaxCalls
    /\ started' = started + 1
    /\ calls' = [calls EXCEPT ![c] =
            [IdleCall EXCEPT !.pc = "called", !.proc = "toggle", !.role = role,
                             !.slug = slug, !.enabled = enabled]]
    /\ UNCHANGED <<app, eventType>>
    /\ UNCHANGED pageVars

CallSaveKeys(c, role, slug, type, keys) ==
    /\ Accepts(c)
    /\ started < MaxCalls
    /\ started' = started + 1
    /\ calls' = [calls EXCEPT ![c] =
            [IdleCall EXCEPT !.pc = "called", !.proc = "saveKeys", !.role = role,
                             !.slug = slug, !.type = type, !.keys = Some(keys)]]
    /\ UNCHANGED <<app, eventType>>
    /\ UNCHANGED pageVars

\* listLocal: one findMany, then the loop over the catalogue.
ListLocal(c) ==
    /\ calls[c].pc = "called"
    /\ calls[c].proc = "listLocal"
    /\ calls' = [calls EXCEPT ![c] =
            IF ~IsAdmin(calls[c].role) THEN Fail(@, "UNAUTHORIZED")
            ELSE [@ EXCEPT !.pc = "returned",
                           !.list = FilteredApps(1, calls[c].variant, DbApps(calls[c].variant))]]
    /\ UNCHANGED <<app, eventType, started>>
    /\ UNCHANGED pageVars

\* An update that flips the stored flag.
ToggleDataFlip(slug, enabled) == ~app[slug].enabled

\* data: { enabled: !input.enabled }
ToggleData(slug, enabled) == ~enabled

\* toggle up to the end of prisma.app.update.
Toggle(c) ==
    /\ calls[c].pc = "called"
    /\ calls[c].proc = "toggle"
    /\ LET call == calls[c]
           role == call.role
           slug == call.slug
           enabled == call.enabled
       IN IF ~IsAdmin(role)
          THEN /\ calls' = [calls EXCEPT ![c] = Fail(call, "UNAUTHORIZED")]
               /\ UNCHANGED app
          ELSE IF slug \notin DOMAIN app
          THEN /\ calls' = [calls EXCEPT ![c] = Fail(call, "NOT_FOUND")]
               /\ UNCHANGED app
          ELSE /\ app' = [app EXCEPT ![slug].enabled = ToggleData(slug, enabled)]
               /\ calls' = [calls EXCEPT ![c] =
                    [call EXCEPT !.pc = "updated", !.row = app'[slug].enabled]]
    /\ UNCHANGED <<eventType, started>>
    /\ UNCHANGED pageVars

\* A branch taken on every toggle.
AlertsUsersAlways(enabled) == TRUE

\* if (input.enabled): the branch that alerts users.
AlertsUsers(enabled) == enabled

IsCalendarOrVideo(slug) ==
    \E category \in app[slug].categories : category = "calendar" \/ category = "video"

\* prisma.credential.findMany({ where: { appId } })
AppCredentials(slug) == {cr \in DOMAIN Credentials : Credentials[cr].appId = slug}

\* prisma.eventType.findMany: metadata.apps[slug].enabled equals true.
EventTypesWithApp(slug) ==
    {e \in EventTypeIds : slug \in DOMAIN eventType[e].apps /\ eventType[e].apps[slug].enabled}

\* toggle after prisma.app.update: the reads, the unawaited Promise.all, the return.
ToggleDispatch(c) ==
    /\ calls[c].pc = "updated"
    /\ LET slug == calls[c].slug
           found == IF ~AlertsUsers(calls[c].enabled) THEN {}
                    ELSE IF IsCalendarOrVideo(slug) THEN {}
                    ELSE {[id |-> e, users |-> EventTypeUsers[e], metadata |-> eventType[e]] :
                                e \in EventTypesWithApp(slug)}
           pending == IF ~AlertsUsers(calls[c].enabled) THEN {}
                      ELSE IF IsCalendarOrVideo(slug) THEN AppCredentials(slug)
                      ELSE EventTypesWithApp(slug)
       IN calls' = [calls EXCEPT ![c] =
            [@ EXCEPT !.pc = "returned", !.ret = calls[c].row, !.found = found,
                      !.tasks = [t \in TaskIds |-> IF t \in pending THEN "pending" ELSE "none"]]]
    /\ UNCHANGED <<app, eventType, started>>
    /\ UNCHANGED pageVars

\* if (credential.user?.email)
HasEmail(cr) ==
    Credentials[cr].user # NoUser /\ Users[Credentials[cr].user].email # ""

\* One callback of the calendar/video Promise.all: getTranslation, then the send,
\* which resolves (ok) or rejects.
CredentialNotify(c, cr, ok) ==
    /\ calls[c].tasks[cr] = "pending"
    /\ cr \in DOMAIN Credentials
    /\ calls' = [calls EXCEPT ![c] =
            IF HasEmail(cr)
            THEN [@ EXCEPT !.tasks[cr] = IF ok THEN "sent" ELSE "failed",
                           !.attempted = @ \cup {[task |-> cr, email |-> Users[Credentials[cr].user].email]}]
            ELSE [@ EXCEPT !.tasks[cr] = "skipped"]]
    /\ UNCHANGED <<app, eventType, started>>
    /\ UNCHANGED pageVars

\* data: { metadata: { ...eventType.metadata, apps: { ...apps, [slug]: { ...apps[slug], enabled: false } } } }
WriteBack(metadata, slug) ==
    [metadata EXCEPT !.apps =
        [s \in DOMAIN metadata.apps \cup {slug} |->
            IF s = slug
            THEN (IF slug \in DOMAIN metadata.apps
                  THEN [metadata.apps[slug] EXCEPT !.enabled = FALSE]
                  ELSE [enabled |-> FALSE])
            ELSE metadata.apps[s]]]

\* An update built from the row as it is when the update is made.
UpdateDataFresh(c, e) == WriteBack(eventType[e], calls[c].slug)

\* The metadata one callback of the generic Promise.all writes: built from the
\* row as findMany read it.
UpdateData(c, e) ==
    WriteBack((CHOOSE r \in calls[c].found : r.id = e).metadata, calls[c].slug)

\* What the callback does after its update resolved: user.locale names no
\* binding in scope, so evaluating it throws and no send is reached.
AfterUpdate(c, e) == [status |-> "threw", attempted |-> {}]

\* One callback of the generic Promise.all.
EventTypeUpdate(c, e) ==
    /\ calls[c].tasks[e] = "pending"
    /\ e \in EventTypeIds
    /\ eventType' = [eventType EXCEPT ![e] = UpdateData(c, e)]
    /\ calls' = [calls EXCEPT ![c] =
            [@ EXCEPT !.tasks[e] = AfterUpdate(c, e).status,
                      !.attempted = @ \cup AfterUpdate(c, e).attempted]]
    /\ UNCHANGED <<app, started>>
    /\ UNCHANGED pageVars

\* A write of the parsed result.
SaveDataParsed(schema, keys) == Some(Parsed(schema, keys))

\* data: { keys: input.keys }
SaveData(schema, keys) == Some(keys)

SaveKeys(c) ==
    /\ calls[c].pc = "called"
    /\ calls[c].proc = "saveKeys"
    /\ LET call == calls[c]
           role == call.role
           slug == call.slug
           type == call.type
           keys == CHOOSE k \in call.keys : TRUE
           keysSchema == SchemaOf(type)
       IN IF ~IsAdmin(role)
          THEN /\ calls' = [calls EXCEPT ![c] = Fail(call, "UNAUTHORIZED")]
               /\ UNCHANGED app
          ELSE IF ~Truthy(keysSchema)
          THEN /\ calls' = [calls EXCEPT ![c] = Fail(call, "TypeError")]
               /\ UNCHANGED app
          ELSE IF ~ParseOk(CHOOSE sch \in keysSchema : TRUE, keys)
          THEN /\ calls' = [calls EXCEPT ![c] = Fail(call, "ZodError")]
               /\ UNCHANGED app
          ELSE IF slug \notin DOMAIN app
          THEN /\ calls' = [calls EXCEPT ![c] = Fail(call, "NOT_FOUND")]
               /\ UNCHANGED app
          ELSE /\ app' = [app EXCEPT ![slug].keys = SaveData(CHOOSE sch \in keysSchema : TRUE, keys)]
               /\ calls' = [calls EXCEPT ![c] = [call EXCEPT !.pc = "returned"]]
    /\ UNCHANGED <<eventType, started>>
    /\ UNCHANGED pageVars

PageInitState ==
    /\ mounted = FALSE
    /\ query = "idle"
    /\ form = "empty"
    /\ mutations = [stage \in Stages |-> 0]
    /\ toasts = [kind \in {"success", "error"} |-> 0]
    /\ navigations = 0

Init ==
    /\ app = InitApp
    /\ eventType = InitEventType
    /\ calls = [c \in Sessions |-> IdleCall]
    /\ started = 0
    /\ PageInitState

Next ==
    \/ \E c \in Sessions, role \in Roles, variant \in Variants : CallListLocal(c, role, variant)
    \/ \E c \in Sessions, role \in Roles, slug \in Slugs, enabled \in BOOLEAN :
            CallToggle(c, role, slug, enabled)
    \/ \E c \in Sessions, role \in Roles, slug \in SaveSlugs, type \in Types, keys \in KeyPayloads :
            CallSaveKeys(c, role, slug, type, keys)
    \/ \E c \in Sessions : ListLocal(c)
    \/ \E c \in Sessions : Toggle(c)
    \/ \E c \in Sessions : SaveKeys(c)
    \/ \E c \in Sessions : ToggleDispatch(c)
    \/ \E c \in Sessions, cr \in DOMAIN Credentials, ok \in BOOLEAN : CredentialNotify(c, cr, ok)
    \/ \E c \in Sessions, e \in EventTypeIds : EventTypeUpdate(c, e)

Spec == Init /\ [][Next]_vars

(***************************************************************************)
(* The availability editor page                                            *)
(***************************************************************************)
MaxSubmits == 3      \* update mutations started in one behaviour

InFlight == mutations["pending"] + mutations["onSuccess"] + mutations["navigating"]
Settled == mutations["success"] + mutations["errorHttp"] + mutations["errorOther"]
Move(from, to) == [mutations EXCEPT ![from] = @ - 1, ![to] = @ + 1]

\* The component mounts: useQuery starts (or serves the cached schedule, and the
\* effect resets the new form); useForm starts empty.
Mount ==
    /\ ~mounted
    /\ mounted' = TRUE
    /\ query' = IF query = "success" THEN "success" ELSE "loading"
    /\ form' = IF query = "success" THEN "hydrated" ELSE "empty"
    /\ UNCHANGED <<mutations, toasts, navigations>>
    /\ UNCHANGED apiVars

\* The user leaves the page; nothing in flight is cancelled.
Unmount ==
    /\ mounted
    /\ mounted' = FALSE
    /\ UNCHANGED <<query, form, mutations, toasts, navigations>>
    /\ UNCHANGED apiVars

\* useQuery settles; on data the effect resets the form.
QuerySettles(ok) ==
    /\ query = "loading"
    /\ query' = IF ok THEN "success" ELSE "error"
    /\ form' = IF ok /\ mounted THEN "hydrated" ELSE form
    /\ UNCHANGED <<mounted, mutations, toasts, navigations>>
    /\ UNCHANGED apiVars

\* setValue / the schedule grid / the timezone select.
Edit ==
    /\ mounted
    /\ form # "edited"
    /\ form' = "edited"
    /\ UNCHANGED <<mounted, query, mutations, toasts, navigations>>
    /\ UNCHANGED apiVars

\* What the save button requires of the page: it is rendered, never disabled.
CanSubmit == mounted

\* handleSubmit: updateMutation.mutate({ scheduleId, ...values }).
Submit ==
    /\ CanSubmit
    /\ InFlight + Settled < MaxSubmits
    /\ mutations' = [mutations EXCEPT !["pending"] = @ + 1]
    /\ UNCHANGED <<mounted, query, form, toasts, navigations>>
    /\ UNCHANGED apiVars

\* The update resolves: onSuccess starts and awaits invalidateQueries / refetchQueries.
MutationSucceeds ==
    /\ mutations["pending"] > 0
    /\ mutations' = Move("pending", "onSuccess")
    /\ UNCHANGED <<mounted, query, form, toasts, navigations>>
    /\ UNCHANGED apiVars

\* The refetch resolves: new data resets the form of a mounted page; onSuccess
\* goes on to await router.push.
Refetched ==
    /\ mutations["onSuccess"] > 0
    /\ mutations' = Move("onSuccess", "navigating")
    /\ query' = IF query = "idle" THEN query ELSE "success"
    /\ form' = IF mounted /\ query # "idle" THEN "hydrated" ELSE form
    /\ UNCHANGED <<mounted, toasts, navigations>>
    /\ UNCHANGED apiVars

\* router.push("/availability") resolves, then the success toast.
Navigated ==
    /\ mutations["navigating"] > 0
    /\ mutations' = Move("navigating", "success")
    /\ mounted' = FALSE
    /\ navigations' = navigations + 1
    /\ toasts' = [toasts EXCEPT !["success"] = @ + 1]
    /\ UNCHANGED <<query, form>>
    /\ UNCHANGED apiVars

\* A toast for every error.
ShowsErrorToastAlways(kind) == TRUE

\* onError: if (err instanceof HttpError) showToast(...)
ShowsErrorToast(kind) == kind = "HttpError"

\* The update rejects: onError.
MutationFails(kind) ==
    /\ mutations["pending"] > 0
    /\ mutations' = Move("pending", IF kind = "HttpError" THEN "errorHttp" ELSE "errorOther")
    /\ toasts' = IF ShowsErrorToast(kind) THEN [toasts EXCEPT !["error"] = @ + 1] ELSE toasts
    /\ UNCHANGED <<mounted, query, form, navigations>>
    /\ UNCHANGED apiVars

PageNext ==
    \/ Mount
    \/ Unmount
    \/ \E ok \in BOOLEAN : QuerySettles(ok)
    \/ Edit
    \/ Submit
    \/ MutationSucceeds
    \/ Refetched
    \/ Navigated
    \/ \E kind \in ErrorKinds : MutationFails(kind)

\* The transport answers every request, and every awaited promise settles.
PageFairness ==
    /\ WF_vars(MutationSucceeds \/ \E kind \in ErrorKinds : MutationFails(kind))
    /\ WF_vars(Refetched)
    /\ WF_vars(Navigated)
    /\ WF_vars(\E ok \in BOOLEAN : QuerySettles(ok))

PageSpec == Init /\ [][PageNext]_vars /\ PageFairness

\* The state of the page in the terms of its state machine.
PageState ==
    IF ~mounted THEN "idle"
    ELSE IF query = "loading" THEN "loading"
    ELSE IF InFlight > 0 THEN "submitting"
    ELSE "ready"

(***************************************************************************)
(* Properties of the apps router                                           *)
(***************************************************************************)
\* The handler body of call c runs in this step.
Ran(c, proc) == calls[c].pc = "called" /\ calls'[c].pc # "called" /\ calls[c].proc = proc

Pending(c) == {t \in TaskIds : calls[c].tasks[t] = "pending"}

\* C1: a listLocal, toggle or saveKeys call of a session whose role is not ADMIN
\* fails with UNAUTHORIZED and changes no app row, no event-type metadata and
\* attempts no email; every change of an app row or of event-type metadata, and
\* every email attempt, is made by a call whose role is ADMIN.
AdminOnly ==
    [][/\ \A c \in Sessions :
            (calls[c].pc = "called" /\ calls'[c].pc # "called" /\ calls[c].role # "ADMIN") =>
                /\ calls'[c].pc = "failed"
                /\ calls'[c].error = "UNAUTHORIZED"
                /\ calls'[c].tasks = NoTasks
                /\ calls'[c].attempted = {}
                /\ calls'[c].list = <<>>
                /\ app' = app
                /\ eventType' = eventType
       /\ (app' # app \/ eventType' # eventType) =>
            \E c \in Sessions :
                /\ calls[c].role = "ADMIN"
                /\ calls'[c].role = "ADMIN"
                /\ calls'[c].pc # calls[c].pc \/ calls'[c].tasks # calls[c].tasks
       /\ \A c \in Sessions :
            calls'[c].attempted \ calls[c].attempted # {} => calls[c].role = "ADMIN"
      ]_vars

\* A non-admin toggle that asked to disable stripe has failed, beside an admin
\* call that changed a row.
AdminOnlyWitness ==
    \E c, d \in Sessions :
        /\ calls[c].proc = "toggle" /\ calls[c].role = "USER" /\ calls[c].slug = "stripe"
        /\ calls[c].enabled /\ calls[c].pc = "failed" /\ calls[c].error = "UNAUTHORIZED"
        /\ app["stripe"].enabled
        /\ calls[d].proc = "saveKeys" /\ calls[d].role = "ADMIN" /\ calls[d].pc = "returned"
        /\ app["stripe"].keys # Null

\* C2: an admin toggle on an existing slug stores the negation of input.enabled,
\* whatever was stored before, and returns the flag its own update stored.
ToggleStoresNegation ==
    [][\A c \in Sessions :
        /\ (Ran(c, "toggle") /\ calls[c].role = "ADMIN" /\ calls[c].slug \in DOMAIN app) =>
                /\ calls'[c].pc = "updated"
                /\ app'[calls[c].slug].enabled = ~calls[c].enabled
        /\ (calls[c].pc = "updated" /\ calls'[c].pc # "updated") =>
                /\ calls'[c].pc = "returned"
                /\ calls'[c].ret = ~calls[c].enabled
      ]_vars

\* Two admin toggles with the same input on the same slug have both returned.
ToggleTwiceWitness ==
    /\ \A c \in Sessions :
        /\ calls[c].proc = "toggle" /\ calls[c].role = "ADMIN" /\ calls[c].slug = "giphy"
        /\ ~calls[c].enabled /\ calls[c].pc = "returned" /\ calls[c].ret
    /\ app["giphy"].enabled

CalendarDisable(c) ==
    /\ calls[c].proc = "toggle" /\ calls[c].role = "ADMIN" /\ calls[c].enabled
    /\ calls[c].pc = "returned"
    /\ calls[c].slug \in DOMAIN app
    /\ \E category \in app[calls[c].slug].categories : category \in {"calendar", "video"}

\* C3: once an admin toggle that disables a calendar or video app is through
\* with all its callbacks, with N users holding credentials for the app exactly
\* N notification attempts were made, one per credentialed user.
OneAttemptPerUser ==
    \A c \in Sessions :
        (CalendarDisable(c) /\ Pending(c) = {}) =>
            Cardinality(calls[c].attempted) =
                Cardinality({Credentials[cr].user :
                    cr \in {x \in DOMAIN Credentials : Credentials[x].appId = calls[c].slug}} \ {NoUser})

\* What the code does where C3 fails: exactly one attempt per credential row of
\* the app whose user has an email address; every attempt resolves or rejects on
\* its own, a pending one can always still be made, and the call has returned
\* !input.enabled whatever the attempts do.
OneAttemptPerCredential ==
    \A c \in Sessions :
        CalendarDisable(c) =>
            /\ calls[c].ret = FALSE
            /\ calls[c].error = ""
            /\ \A cr \in DOMAIN Credentials :
                IF Credentials[cr].appId # calls[c].slug THEN calls[c].tasks[cr] = "none"
                ELSE IF Credentials[cr].user = NoUser
                THEN calls[c].tasks[cr] \in {"pending", "skipped"}
                ELSE /\ calls[c].tasks[cr] \in {"pending", "sent", "failed"}
                     /\ calls[c].tasks[cr] # "pending" <=>
                            [task |-> cr, email |-> Users[Credentials[cr].user].email] \in calls[c].attempted
                     /\ calls[c].tasks[cr] = "pending" =>
                            \A ok \in BOOLEAN : ENABLED CredentialNotify(c, cr, ok)
            /\ Cardinality(calls[c].attempted) =
                Cardinality({cr \in DOMAIN Credentials :
                    /\ Credentials[cr].appId = calls[c].slug
                    /\ Credentials[cr].user # NoUser
                    /\ calls[c].tasks[cr] # "pending"})

\* All callbacks of a calendar disable are done: one send rejected, one resolved.
CalendarDisableWitness ==
    \E c \in Sessions :
        /\ CalendarDisable(c)
        /\ Pending(c) = {}
        /\ calls[c].tasks["c1"] = "failed"
        /\ calls[c].tasks["c2"] = "sent"
        /\ calls[c].tasks["c3"] = "skipped"
        /\ Cardinality(calls[c].attempted) = 2
        /\ calls[c].ret = FALSE

GenericDisable(c) ==
    /\ calls[c].proc = "toggle" /\ calls[c].role = "ADMIN" /\ calls[c].enabled
    /\ calls[c].pc = "returned"
    /\ calls[c].slug \in DOMAIN app
    /\ ~\E category \in app[calls[c].slug].categories : category \in {"calendar", "video"}

\* C4: once an admin toggle that disables a non-calendar/video app is through
\* with all its callbacks, every event type that marked the app enabled has
\* metadata.apps[slug].enabled = false and a notification was attempted for
\* every user of those event types.
GenericDisableNotifies ==
    \A c \in Sessions :
        (GenericDisable(c) /\ Pending(c) = {}) =>
            \A r \in calls[c].found :
                /\ ~eventType[r.id].apps[calls[c].slug].enabled
                /\ \A u \in r.users :
                    [task |-> r.id, email |-> Users[u].email] \in calls[c].attempted

FailsSchema(c) ==
    LET appKey == deriveAppDictKeyFromType(calls[c].type)
    IN /\ appKey \in DOMAIN appKeysSchemas
       /\ \E k \in calls[c].keys :
            \E name \in Range(appKeysSchemas[appKey]) :
                name \notin DOMAIN k \/ k[name].type # "string"

\* C6: an admin saveKeys call whose payload fails the schema resolved from
\* input.type ends with the validation error; it never returns normally.
InvalidKeysRejected ==
    \A c \in Sessions :
        (/\ calls[c].proc = "saveKeys" /\ calls[c].role = "ADMIN"
         /\ calls[c].pc # "called" /\ FailsSchema(c)) =>
            calls[c].pc = "failed" /\ calls[c].error = "ZodError"

\* A payload that passes zoom's schema was sent as stripe_payment and rejected.
InvalidKeysWitness ==
    \E c \in Sessions :
        /\ calls[c].proc = "saveKeys" /\ calls[c].role = "ADMIN"
        /\ calls[c].type = "stripe_payment" /\ calls[c].keys = Some(KeysIdOnly)
        /\ calls[c].pc = "failed" /\ calls[c].error = "ZodError"

\* C7 as stated: when validation of input.keys fails, the write still proceeds
\* and the row's keys are the original input.keys.
InvalidKeysStillWritten ==
    [][\A c \in Sessions :
        (/\ Ran(c, "saveKeys") /\ calls[c].role = "ADMIN"
         /\ calls[c].slug \in DOMAIN app /\ FailsSchema(c)) =>
            app'[calls[c].slug].keys = calls[c].keys
      ]_vars

\* C7 as amended: when validation fails no row is written; when it passes, the
\* row's keys become the original input.keys (not the parsed result) and nothing
\* else changes.
InvalidKeysNotWritten ==
    [][\A c \in Sessions :
        (/\ Ran(c, "saveKeys") /\ calls[c].role = "ADMIN"
         /\ calls[c].slug \in DOMAIN app
         /\ deriveAppDictKeyFromType(calls[c].type) \in DOMAIN appKeysSchemas) =>
            IF FailsSchema(c)
            THEN app' = app /\ calls'[c].pc = "failed"
            ELSE /\ app' = [app EXCEPT ![calls[c].slug].keys = calls[c].keys]
                 /\ calls'[c].pc = "returned"
      ]_vars

\* A payload with a wrong-typed key was rejected and the row does not hold it;
\* the row holds an earlier payload with its extra key unstripped.
InvalidKeysNotWrittenWitness ==
    \E c \in Sessions :
        /\ calls[c].proc = "saveKeys" /\ calls[c].role = "ADMIN"
        /\ calls[c].slug = "stripe" /\ calls[c].keys = Some(KeysBadType)
        /\ calls[c].pc = "failed"
        /\ app["stripe"].keys = Some(KeysFull)

\* C8: every event-type update of a disabling toggle writes back the whole
\* metadata object as the call's own findMany read it, with only its own app's
\* flag forced false (so the last writer wins).
StaleWriteBack ==
    [][\A c \in Sessions : \A e \in EventTypeIds :
        (calls[c].tasks[e] = "pending" /\ calls'[c].tasks[e] # "pending") =>
            \E r \in calls[c].found :
                /\ r.id = e
                /\ eventType'[e] = [r.metadata EXCEPT !.apps[calls[c].slug].enabled = FALSE]
      ]_vars

\* Both disabling toggles and all their updates are done, both apps are
\* disabled, and et1 still marks one of them enabled.
LostUpdate ==
    /\ \A c \in Sessions : GenericDisable(c) /\ Pending(c) = {}
    /\ {calls[c].slug : c \in Sessions} = {"stripe", "giphy"}
    /\ ~app["stripe"].enabled /\ ~app["giphy"].enabled
    /\ \A c \in Sessions : calls[c].tasks["et1"] = "threw"
    /\ eventType["et1"].apps["stripe"].enabled \/ eventType["et1"].apps["giphy"].enabled

\* C9: an admin toggle with input.enabled = false changes only the enabled flag
\* of the row with its slug: no callback is left behind, no email is attempted,
\* no event-type metadata changes, keys and other rows stay.
EnableOnlySetsFlag ==
    [][\A c \in Sessions :
        (/\ calls[c].proc = "toggle" /\ calls[c].role = "ADMIN" /\ ~calls[c].enabled
         /\ calls[c].pc \in {"called", "updated"} /\ calls'[c].pc # calls[c].pc) =>
            /\ eventType' = eventType
            /\ calls'[c].tasks = NoTasks
            /\ calls'[c].attempted = {}
            /\ IF calls[c].pc = "called" /\ calls[c].slug \in DOMAIN app
               THEN app' = [app EXCEPT ![calls[c].slug].enabled = TRUE]
               ELSE app' = app
      ]_vars

\* An enabling toggle of giphy has returned true.
EnableWitness ==
    \E c \in Sessions :
        /\ calls[c].proc = "toggle" /\ calls[c].role = "ADMIN" /\ ~calls[c].enabled
        /\ calls[c].slug = "giphy" /\ calls[c].pc = "returned" /\ calls[c].ret
        /\ app["giphy"].enabled
        /\ eventType = InitEventType

(***************************************************************************)
(* Properties of the availability editor page                              *)
(***************************************************************************)
Submitted == mutations'["pending"] > mutations["pending"]

\* C10 as stated: idle -> loading -> ready -> (submitting -> success | error)
\* -> ready: a submit happens only from ready, every submit ends in success or
\* error, after either outcome the page is in ready again, and an error shows a
\* toast only if it is a classified HTTP error.
PageMachineAsStated ==
    /\ [][/\ Submitted => PageState = "ready"
          /\ Settled' > Settled => PageState' = "ready"
          /\ toasts'["error"] # toasts["error"] => mutations'["errorHttp"] > mutations["errorHttp"]
          /\ mutations'["errorOther"] > mutations["errorOther"] => toasts' = toasts
         ]_vars
    /\ \A k \in 0..MaxSubmits : (InFlight > 0 /\ Settled = k) ~> (Settled > k)

\* C10 as amended: a submit is possible in every state in which the page is
\* mounted (while the schedule is loading and while another update is in flight
\* too), every submit ends in success or error, an error leaves the page as it
\* is with a further submit possible, a success navigates away from the page
\* (to the availability list) and shows the success toast, and an error shows a
\* toast only if it is a classified HTTP error, any other error showing nothing.
PageMachine ==
    /\ [][/\ Submitted => mounted /\ Settled' = Settled /\ UNCHANGED <<mounted, query, form, toasts>>
          /\ mutations'["errorHttp"] > mutations["errorHttp"] =>
                /\ toasts' = [toasts EXCEPT !["error"] = @ + 1]
                /\ UNCHANGED <<mounted, query, form, navigations>>
          /\ mutations'["errorOther"] > mutations["errorOther"] =>
                UNCHANGED <<toasts, mounted, query, form, navigations>>
          /\ toasts'["error"] # toasts["error"] => mutations'["errorHttp"] > mutations["errorHttp"]
          /\ mutations'["success"] > mutations["success"] =>
                /\ ~mounted'
                /\ navigations' = navigations + 1
                /\ toasts' = [toasts EXCEPT !["success"] = @ + 1]
         ]_vars
    /\ []((mounted /\ InFlight + Settled < MaxSubmits) => ENABLED Submit)
    /\ \A k \in 0..MaxSubmits : (InFlight > 0 /\ Settled = k) ~> (Settled > k)

\* Three submits have ended: one in success, which left the page, one in an
\* HTTP error with its toast, one in another error without any.
PageMachineWitness ==
    /\ mutations["success"] = 1
    /\ mutations["errorHttp"] = 1
    /\ mutations["errorOther"] = 1
    /\ toasts = [kind \in {"success", "error"} |-> 1]
    /\ navigations = 1
    /\ ~mounted

====
